---- MODULE Spec2Model ----
(***************************************************************************)
(* A model of recycle::resource_pool (src/src/recycle/resource_pool.hpp).  *)
(*                                                                         *)
(* One pool facade owns one impl (the Pool Core).  Up to nthreads threads  *)
(* call allocate(), free_unused() and unused_resources() through the       *)
(* facade, copy and drop the value_ptr Handles that allocate() returned,   *)
(* and destroy the facade.  A Handle is a std::shared_ptr whose control    *)
(* block holds the deleter (a weak_ptr to the impl plus the inner          *)
(* value_ptr m_resource) and a SimpleAllocator (references to the impl's   *)
(* control block vector and mutex).                                        *)
(*                                                                         *)
(* Threads are anonymous: the state holds the operations in flight.  A     *)
(* release in flight is the position of its Handle in                      *)
(* deleter::operator() and SimpleAllocator::deallocate (handles[h].st);    *)
(* allocate() calls between the unlock and m_allocate() are counted in     *)
(* allocMissing; the member function inside a lock_type scope is the       *)
(* value of m_mutex.  An operation starts only while fewer than nthreads   *)
(* are in flight.  nthreads = 1 is single-threaded use (the case of        *)
(* no_locking_policy); with more threads lock_type is a real lock, and a   *)
(* lock_type constructor is enabled only when m_mutex is free.             *)
(***************************************************************************)
EXTENDS Integers, Sequences, FiniteSets

\* ---- bounds of the model ----
NumThreads == 2
MaxCapacity == 2
MaxHandles == 3
MaxHandlesMT == 2
MaxCopies == 1
HistLen == 2
MaxHandlesCP == 2
MaxCopyHandles == 1

HandleIds == 1..MaxHandles
\* allocate() makes at most one resource and one control block per call; the
\* copy constructor makes at most capacity-many resources
ResourceIds == 1..(MaxHandles + MaxCapacity + MaxCopyHandles)
BlockIds == 1..(MaxHandles + MaxCopyHandles)

VARIABLES
    facade,        \* resource_pool::m_pool is set: the facade is alive
    implAlive,     \* the impl has been constructed and not destructed
    capacity,      \* the capacity given to the constructor
    hasRecycle,    \* impl::m_recycle holds a function
    nthreads,      \* number of threads that use the pool and its Handles
    m_free_vector, \* impl::m_free_vector, a sequence of resources
    m_free_vector_control_blocks, \* impl::m_free_vector_control_blocks
    m_mutex,       \* impl::m_mutex: "free", or the function that holds it
    allocMissing,  \* allocate() calls past line 249 that found no resource
    handles,       \* per Handle: resource, control block, use_count, position
    resState,      \* per resource: "unborn", "live", "destroyed"
    blockState,    \* per control block: "unalloc", "inuse", "cached", "freed", "lost"
    recycleCalls,  \* per Handle: how often m_recycle was invoked for it
    danglingAccess,\* a destroyed impl's mutex or vector has been accessed
    hist,          \* when on: the last HistLen operations that returned
    copy           \* a second pool, copy-constructed from this one

vars == <<facade, implAlive, capacity, hasRecycle, nthreads, m_free_vector,
          m_free_vector_control_blocks, m_mutex, allocMissing, handles,
          resState, blockState, recycleCalls, danglingAccess, hist, copy>>

\* ---- helpers ----
Min(a, b) == IF a < b THEN a ELSE b

Range(s) == {s[i] : i \in 1..Len(s)}

Front(s) == SubSeq(s, 1, Len(s) - 1)

Back(s) == s[Len(s)]

\* the lowest id of S not yet taken; callers guard that one exists
Lowest(S) == CHOOSE x \in S : \A y \in S : x <= y

UnusedHandles == {h \in HandleIds : handles[h].st = "unused"}
UnbornResources == {r \in ResourceIds : resState[r] = "unborn"}
UnallocBlocks == {b \in BlockIds : blockState[b] = "unalloc"}

\* positions of a Handle inside deleter::operator() and deallocate()
ReleaseStates ==
    {"rec_call", "rec_lock", "rec_cs", "del_reset", "dealloc_lock", "dealloc_cs"}

\* a deleter whose m_resource is never reset
HoldsResourceAfterReset(st) == st \in ReleaseStates \cup {"active", "gone"}

\* the deleter still holds m_resource (line 469 has not run)
HoldsResource(st) == st \in {"active", "rec_call", "rec_lock", "rec_cs", "del_reset"}

\* the local `pool` of deleter::operator() (line 407) holds the impl
HoldsPool(hrec) ==
    \/ hrec.st \in {"rec_call", "rec_lock", "rec_cs"}
    \/ hrec.st = "del_reset" /\ hrec.fate # "expired"

FacadeCalls == {"allocate", "free_unused", "unused_resources"}

\* threads that are inside an operation
Busy ==
    Cardinality({h \in HandleIds : handles[h].st \in ReleaseStates})
    + allocMissing
    + (IF m_mutex \in FacadeCalls THEN 1 ELSE 0)

\* a thread is free to start an operation
IdleThread == Busy < nthreads

\* allocate() calls the model follows, fewer when threads interleave
HandleBudget ==
    IF copy.on THEN MaxHandlesCP
    ELSE IF nthreads = 1 THEN MaxHandles ELSE MaxHandlesMT

IssuedHandles == {h \in HandleIds : handles[h].st # "unused"}

\* value_ptr copies in existence beyond the one allocate() returned per Handle
RECURSIVE SumExtra(_)
SumExtra(S) ==
    IF S = {} THEN 0
    ELSE LET h == Lowest(S)
         IN (IF handles[h].st = "active" THEN handles[h].count - 1 ELSE 0)
            + SumExtra(S \ {h})

ExtraCopies == SumExtra(HandleIds)

\* std::vector::capacity() after reserve(capacity) on an empty vector
VectorCapacity == capacity

\* number of value_ptr copies that keep resource r alive: the entries of the
\* free list and the m_resource of every deleter that has not been reset
InnerRefs(hs, fl, r) ==
    Cardinality({i \in 1..Len(fl) : fl[i] = r})
    + Cardinality({h \in HandleIds : hs[h].res = r /\ HoldsResource(hs[h].st)})

\* number of value_ptr copies by which the copied pool cp keeps resource r
\* alive: the entries of its free list and the deleters of its Handles
CopyRefs(cp, r) ==
    Cardinality({i \in 1..Len(cp.m_free_vector) : cp.m_free_vector[i] = r})
    + Cardinality({x \in cp.held : x.res = r})

\* shared_ptr semantics: a live resource with no value_ptr left is destroyed
ReapAll(rs, hs, fl, cp) ==
    [r \in ResourceIds |->
        IF rs[r] = "live" /\ InnerRefs(hs, fl, r) + CopyRefs(cp, r) = 0
        THEN "destroyed" ELSE rs[r]]

\* the same after a step of this pool, which leaves the copied pool alone
Reap(rs, hs, fl) == ReapAll(rs, hs, fl, copy)

\* an entry of hist: the operation, its Handle and resource, whether an
\* allocate() invoked m_allocate (fresh), whether a release followed the
\* allocate() of its own Handle with nothing in between (direct), and a
\* number: the value unused_resources() returned, the control blocks an
\* allocate() took from std::malloc or a release gave to std::free
Event(op, h, r, fresh, direct, n) ==
    [op |-> op, h |-> h, res |-> r, fresh |-> fresh, direct |-> direct, n |-> n]

\* the last completed operation is the allocate() that returned Handle h
Direct(h) ==
    /\ hist.ops # <<>>
    /\ Back(hist.ops).op = "allocate"
    /\ Back(hist.ops).h = h

\* hist after a completed operation, when the run keeps a history
Logged(e) ==
    IF hist.on
    THEN [hist EXCEPT !.ops = IF Len(@) < HistLen THEN Append(@, e)
                                                  ELSE Append(Tail(@), e)]
    ELSE hist

NoHandleRec ==
    [res |-> 0, block |-> 0, count |-> 0, st |-> "unused", fate |-> "none",
     epoch |-> FALSE]

\* the state after resource_pool's constructor (lines 89-100, 160-178),
\* used by a number of threads out of ns, with or without a history, which
\* holds the failed allocate() calls or not
InitPool(ns, on, throws) ==
    /\ facade = TRUE
    /\ implAlive = TRUE
    /\ capacity \in 0..MaxCapacity
    /\ hasRecycle \in BOOLEAN
    /\ nthreads \in ns
    /\ m_free_vector = <<>>
    /\ m_free_vector_control_blocks = <<>>
    /\ m_mutex = "free"
    /\ allocMissing = 0
    /\ handles = [h \in HandleIds |-> NoHandleRec]
    /\ resState = [r \in ResourceIds |-> "unborn"]
    /\ blockState = [b \in BlockIds |-> "unalloc"]
    /\ recycleCalls = [h \in HandleIds |-> 0]
    /\ danglingAccess = FALSE
    /\ hist = [on |-> on, throws |-> throws, ops |-> <<>>]

\* no second pool; when on, the run may copy-construct one
NoCopy(on) ==
    [on |-> on, made |-> FALSE, capacity |-> 0, m_free_vector |-> <<>>,
     m_free_vector_control_blocks |-> <<>>, held |-> {}, past |-> {},
     issued |-> 0]

Init == InitPool(1..NumThreads, FALSE, FALSE) /\ copy = NoCopy(FALSE)

\* single-threaded use, with the history of completed operations
InitSeq == InitPool({1}, TRUE, FALSE) /\ copy = NoCopy(FALSE)

\* single-threaded use, with the history of returned and of failed calls
InitFail == InitPool({1}, TRUE, TRUE) /\ copy = NoCopy(FALSE)

\* single-threaded use of a pool that may be copied
InitCopy == InitPool({1}, FALSE, FALSE) /\ copy = NoCopy(TRUE)

\* ---- faulty variants of single steps, each refuted by a property below ----

\* recycle() without the capacity test of line 305
RecyclePushUnbounded(fl, r) == Append(fl, r)

\* recycle() that keeps the last slot of the free list unused
RecyclePushBelowLast(fl, r) ==
    IF Len(fl) + 1 < VectorCapacity THEN Append(fl, r) ELSE fl

\* recycle() that replaces the newest entry of a full free list
RecyclePushReplacing(fl, r) ==
    IF Len(fl) < VectorCapacity THEN Append(fl, r)
    ELSE IF fl = <<>> THEN fl ELSE Append(Front(fl), r)

\* allocate() without the pop_back() of line 244
FreeListPopNothing(fl) == fl

\* allocate() that never takes the hit path
FreeListHitNever(fl) == FALSE

\* allocate() that takes the hit path only with two or more free resources
FreeListHitAboveOne(fl) == Len(fl) > 1

\* recycle() that calls m_recycle only when the free list has room
CallsRecycleIfRoom == hasRecycle /\ Len(m_free_vector) < VectorCapacity

\* clear() that removes nothing
ClearedNothing(v) == v

\* free_unused() that frees the control blocks of the Handles as well
FreeAllInUse(bs, cb) ==
    [b \in BlockIds |-> IF bs[b] \in {"inuse", "cached"} THEN "freed" ELSE bs[b]]

\* the impl destroyed as soon as the facade lets go, whatever the deleters hold
LastPoolRefFacadeOnly(fac, hs) == ~fac

\* a deleter that holds a shared_ptr<impl> instead of the weak m_pool
LastPoolRefStrongHandles(fac, hs) ==
    ~fac /\ \A h \in HandleIds : ~HoldsPool(hs[h]) /\ hs[h].st # "active"

\* a SimpleAllocator that gives every returned block to std::free
DeallocateCachesNever(cb) == FALSE

\* deallocate() without the comparison of line 349
DeallocateCachesAlways(cb) == TRUE

\* a SimpleAllocator that never looks into the control block vector
TakesCachedNever(should_take_cached, cb) == FALSE

\* a SimpleAllocator without m_should_take_cached
TakesCachedAlways(should_take_cached, cb) == cb # <<>>

\* allocate() whose lock scope never ends
LockScopeEndNever(hit) == "allocate"

\* allocate() whose lock scope ends at line 249 on the hit path only and
\* spans the call of m_allocate on the miss path
LockScopeEndHitOnly(hit) == IF hit THEN "free" ELSE "allocate"

\* ---- single steps of the code ----

\* impl::allocate, line 249: the scope of `lock` ends on the hit path and on
\* the miss path, before line 251
LockScopeEnd(hit) == "free"

\* impl::allocate, line 241: the free list decides hit or miss
FreeListHit(fl) == Len(fl) > 0

\* impl::allocate, line 243: resource = m_free_vector.back()
FreeListBack(fl) == Back(fl)

\* impl::allocate, line 244: m_free_vector.pop_back()
FreeListPop(fl) == Front(fl)

\* SimpleAllocator::allocate, line 332: a cached control block is taken
TakesCached(should_take_cached, cb) == should_take_cached /\ cb # <<>>

\* SimpleAllocator::allocate: the block the new Handle gets, cached or malloc'ed
AllocatedBlock(should_take_cached, cb) ==
    IF TakesCached(should_take_cached, cb) THEN Back(cb) ELSE Lowest(UnallocBlocks)

\* SimpleAllocator::allocate: the control block vector afterwards
CacheAfterAllocate(should_take_cached, cb) ==
    IF TakesCached(should_take_cached, cb) THEN Front(cb) ELSE cb

\* impl::recycle, line 299: if (m_recycle)
CallsRecycle == hasRecycle

\* impl::recycle, lines 305-306: push only below the vector's capacity
RecyclePush(fl, r) ==
    IF Len(fl) < VectorCapacity THEN Append(fl, r) ELSE fl

\* SimpleAllocator::deallocate, line 349: the block goes back to the cache
DeallocateCaches(cb) == Len(cb) < VectorCapacity

\* deleter::operator(), line 407: m_pool.lock() yields the impl
WeakLock == implAlive

\* std::vector::clear()
Cleared(v) == <<>>

\* std::free(p) for every p of the control block vector
FreeAll(bs, cb) ==
    [b \in BlockIds |-> IF b \in Range(cb) THEN "freed" ELSE bs[b]]

\* the shared_ptr<impl> count is zero: no facade, no local `pool` of a deleter
LastPoolRef(fac, hs) == ~fac /\ \A h \in HandleIds : ~HoldsPool(hs[h])

\* the value_ptr that allocate() returns: deleter(pool, resource) in a new
\* control block, use_count 1
NewHandle(r, b) ==
    [res |-> r, block |-> b, count |-> 1, st |-> "active", fate |-> "none",
     epoch |-> FALSE]

\* ---- resource_pool::allocate -> impl::allocate ----

\* line 239: lock_type lock(m_mutex)
AllocLock ==
    /\ IdleThread
    /\ facade
    /\ Cardinality(IssuedHandles) + allocMissing < HandleBudget
    /\ m_mutex = "free"
    /\ m_mutex' = "allocate"
    /\ UNCHANGED <<facade, implAlive, capacity, hasRecycle, nthreads,
                   m_free_vector, m_free_vector_control_blocks, allocMissing,
                   handles, resState, blockState, recycleCalls,
                   danglingAccess, hist>>
    /\ UNCHANGED copy

\* lines 241-249: the hit path builds the Handle under the lock
AllocCheck ==
    /\ m_mutex = "allocate"
    /\ IF FreeListHit(m_free_vector)
       THEN LET r == FreeListBack(m_free_vector)
                b == AllocatedBlock(TRUE, m_free_vector_control_blocks)
                h == Lowest(UnusedHandles)
            IN /\ m_free_vector' = FreeListPop(m_free_vector)
               /\ m_free_vector_control_blocks' =
                      CacheAfterAllocate(TRUE, m_free_vector_control_blocks)
               /\ blockState' = [blockState EXCEPT ![b] = "inuse"]
               /\ handles' = [handles EXCEPT ![h] = NewHandle(r, b)]
               /\ hist' = Logged(Event("allocate", h, r, FALSE, FALSE,
                                       IF blockState[b] = "unalloc" THEN 1 ELSE 0))
               /\ UNCHANGED allocMissing
       ELSE /\ allocMissing' = allocMissing + 1
            /\ UNCHANGED <<m_free_vector, m_free_vector_control_blocks,
                           blockState, handles, hist>>
    /\ m_mutex' = LockScopeEnd(FreeListHit(m_free_vector))
    /\ UNCHANGED <<facade, implAlive, capacity, hasRecycle, nthreads,
                   resState, recycleCalls, danglingAccess>>
    /\ UNCHANGED copy

\* lines 251-258: the miss path calls m_allocate() outside the lock
AllocMiss ==
    /\ allocMissing > 0
    /\ LET r == Lowest(UnbornResources)
           b == AllocatedBlock(FALSE, m_free_vector_control_blocks)
           h == Lowest(UnusedHandles)
       IN /\ resState' = [resState EXCEPT ![r] = "live"]
          /\ m_free_vector_control_blocks' =
                 CacheAfterAllocate(FALSE, m_free_vector_control_blocks)
          /\ blockState' = [blockState EXCEPT ![b] = "inuse"]
          /\ handles' = [handles EXCEPT ![h] = NewHandle(r, b)]
          /\ hist' = Logged(Event("allocate", h, r, TRUE, FALSE,
                                  IF blockState[b] = "unalloc" THEN 1 ELSE 0))
    /\ allocMissing' = allocMissing - 1
    /\ UNCHANGED <<facade, implAlive, capacity, hasRecycle, nthreads,
                   m_free_vector, m_mutex, recycleCalls, danglingAccess>>
    /\ UNCHANGED copy

\* line 254: m_allocate() throws; the exception leaves allocate() with
\* `resource`, `result` and `pool` destroyed and nothing else done.  The
\* call returns nothing; it is an entry of hist only in runs that keep the
\* failed calls.
AllocThrow ==
    /\ allocMissing > 0
    /\ allocMissing' = allocMissing - 1
    /\ hist' = IF hist.throws
               THEN Logged(Event("allocate_throws", 0, 0, FALSE, FALSE, 0))
               ELSE hist
    /\ UNCHANGED <<facade, implAlive, capacity, hasRecycle, nthreads,
                   m_free_vector, m_free_vector_control_blocks, m_mutex,
                   handles, resState, blockState, recycleCalls,
                   danglingAccess>>
    /\ UNCHANGED copy

\* ---- resource_pool::free_unused -> impl::free_unused ----

\* line 281: lock_type lock(m_mutex)
FreeUnusedLock ==
    /\ IdleThread
    /\ facade
    /\ m_mutex = "free"
    /\ m_mutex' = "free_unused"
    /\ UNCHANGED <<facade, implAlive, capacity, hasRecycle, nthreads,
                   m_free_vector, m_free_vector_control_blocks, allocMissing,
                   handles, resState, blockState, recycleCalls,
                   danglingAccess, hist>>
    /\ UNCHANGED copy

\* lines 282-286: clear both vectors, free every cached block
FreeUnusedBody ==
    /\ m_mutex = "free_unused"
    /\ m_free_vector' = Cleared(m_free_vector)
    /\ blockState' = FreeAll(blockState, m_free_vector_control_blocks)
    /\ m_free_vector_control_blocks' = Cleared(m_free_vector_control_blocks)
    /\ resState' = Reap(resState, handles, m_free_vector')
    /\ handles' = [h \in HandleIds |-> [handles[h] EXCEPT !.epoch = FALSE]]
    /\ hist' = Logged(Event("free_unused", 0, 0, FALSE, FALSE, 0))
    /\ m_mutex' = "free"
    /\ UNCHANGED <<facade, implAlive, capacity, hasRecycle, nthreads,
                   allocMissing, recycleCalls, danglingAccess>>
    /\ UNCHANGED copy

\* ---- resource_pool::unused_resources -> impl::unused_resources ----

\* line 291: lock_type lock(m_mutex)
UnusedLock ==
    /\ IdleThread
    /\ facade
    /\ m_mutex = "free"
    /\ m_mutex' = "unused_resources"
    /\ UNCHANGED <<facade, implAlive, capacity, hasRecycle, nthreads,
                   m_free_vector, m_free_vector_control_blocks, allocMissing,
                   handles, resState, blockState, recycleCalls,
                   danglingAccess, hist>>
    /\ UNCHANGED copy

\* line 292: return m_free_vector.size()
UnusedBody ==
    /\ m_mutex = "unused_resources"
    /\ hist' = Logged(Event("unused_resources", 0, 0, FALSE, FALSE,
                            Len(m_free_vector)))
    /\ m_mutex' = "free"
    /\ UNCHANGED <<facade, implAlive, capacity, hasRecycle, nthreads,
                   m_free_vector, m_free_vector_control_blocks, allocMissing,
                   handles, resState, blockState, recycleCalls,
                   danglingAccess>>
    /\ UNCHANGED copy

\* ---- Handles: std::shared_ptr copies ----

\* a copy of a value_ptr: use_count goes up
CopyHandle(h) ==
    /\ IdleThread
    /\ handles[h].st = "active"
    /\ ExtraCopies < MaxCopies
    /\ handles' = [handles EXCEPT ![h].count = @ + 1]
    /\ UNCHANGED <<facade, implAlive, capacity, hasRecycle, nthreads,
                   m_free_vector, m_free_vector_control_blocks, m_mutex,
                   allocMissing, resState, blockState, recycleCalls,
                   danglingAccess, hist>>
    /\ UNCHANGED copy

\* a value_ptr is destroyed; at use_count 0 the deleter is entered and
\* line 407 takes auto pool = m_pool.lock()
DropHandle(h) ==
    /\ IdleThread
    /\ handles[h].st = "active"
    /\ handles' =
          [handles EXCEPT ![h] =
              IF @.count > 1
              THEN [@ EXCEPT !.count = @ - 1]
              ELSE IF WeakLock
                   THEN [@ EXCEPT !.count = 0,
                                  !.st = IF CallsRecycle THEN "rec_call"
                                                         ELSE "rec_lock"]
                   ELSE [@ EXCEPT !.count = 0, !.st = "del_reset",
                                  !.fate = "expired"]]
    /\ UNCHANGED <<facade, implAlive, capacity, hasRecycle, nthreads,
                   m_free_vector, m_free_vector_control_blocks, m_mutex,
                   allocMissing, resState, blockState, recycleCalls,
                   danglingAccess, hist>>
    /\ UNCHANGED copy

\* ---- impl::recycle ----

\* lines 299-302: m_recycle(resource), outside the lock
RecycleCall(h) ==
    /\ handles[h].st = "rec_call"
    /\ recycleCalls' = [recycleCalls EXCEPT ![h] = @ + 1]
    /\ handles' = [handles EXCEPT ![h].st = "rec_lock"]
    /\ UNCHANGED <<facade, implAlive, capacity, hasRecycle, nthreads,
                   m_free_vector, m_free_vector_control_blocks, m_mutex,
                   allocMissing, resState, blockState, danglingAccess, hist>>
    /\ UNCHANGED copy

\* line 304: lock_type lock(m_mutex)
RecycleLock(h) ==
    /\ handles[h].st = "rec_lock"
    /\ m_mutex = "free"
    /\ m_mutex' = "recycle"
    /\ handles' = [handles EXCEPT ![h].st = "rec_cs"]
    /\ UNCHANGED <<facade, implAlive, capacity, hasRecycle, nthreads,
                   m_free_vector, m_free_vector_control_blocks, allocMissing,
                   resState, blockState, recycleCalls, danglingAccess, hist>>
    /\ UNCHANGED copy

\* lines 305-307: push or not, unlock
RecycleBody(h) ==
    /\ handles[h].st = "rec_cs"
    /\ m_free_vector' = RecyclePush(m_free_vector, handles[h].res)
    /\ handles' = [handles EXCEPT
                      ![h].st = "del_reset",
                      ![h].fate = IF m_free_vector' # m_free_vector
                                  THEN "recycled" ELSE "overflow",
                      ![h].epoch = TRUE]
    /\ m_mutex' = "free"
    /\ UNCHANGED <<facade, implAlive, capacity, hasRecycle, nthreads,
                   m_free_vector_control_blocks, allocMissing, resState,
                   blockState, recycleCalls, danglingAccess, hist>>
    /\ UNCHANGED copy

\* ---- impl::~impl, lines 204-210 ----
ImplDtor ==
    /\ implAlive' = FALSE
    /\ m_free_vector' = Cleared(m_free_vector)
    /\ blockState' = FreeAll(blockState, m_free_vector_control_blocks)
    /\ m_free_vector_control_blocks' = Cleared(m_free_vector_control_blocks)

\* ---- deleter::operator(), line 469 and the end of its scope ----

\* m_resource.reset(), then the local `pool` goes out of scope; when that was
\* the last shared_ptr<impl>, ~impl runs in this thread
DeleterReset(h) ==
    /\ handles[h].st = "del_reset"
    /\ handles' = [handles EXCEPT ![h].st = "dealloc_lock"]
    /\ IF implAlive /\ LastPoolRef(facade, handles')
       THEN ImplDtor
       ELSE UNCHANGED <<implAlive, m_free_vector, blockState,
                        m_free_vector_control_blocks>>
    /\ resState' = Reap(resState, handles', m_free_vector')
    /\ UNCHANGED <<facade, capacity, hasRecycle, nthreads, m_mutex,
                   allocMissing, recycleCalls, danglingAccess, hist>>
    /\ UNCHANGED copy

\* ---- SimpleAllocator::deallocate: the Handle's control block is returned ----

\* line 348: lock_type lock(m_mutex), m_mutex a reference into a live impl
DeallocLock(h) ==
    /\ handles[h].st = "dealloc_lock"
    /\ implAlive
    /\ m_mutex = "free"
    /\ m_mutex' = "deallocate"
    /\ handles' = [handles EXCEPT ![h].st = "dealloc_cs"]
    /\ UNCHANGED <<facade, implAlive, capacity, hasRecycle, nthreads,
                   m_free_vector, m_free_vector_control_blocks, allocMissing,
                   resState, blockState, recycleCalls, danglingAccess, hist>>
    /\ UNCHANGED copy

\* lines 349-358 on a live impl
DeallocBody(h) ==
    /\ handles[h].st = "dealloc_cs"
    /\ implAlive
    /\ LET b == handles[h].block
       IN IF DeallocateCaches(m_free_vector_control_blocks)
          THEN /\ m_free_vector_control_blocks' =
                      Append(m_free_vector_control_blocks, b)
               /\ blockState' = [blockState EXCEPT ![b] = "cached"]
          ELSE /\ blockState' = [blockState EXCEPT ![b] = "freed"]
               /\ UNCHANGED m_free_vector_control_blocks
    /\ handles' = [handles EXCEPT ![h].st = "gone"]
    /\ hist' = Logged(Event("drop", h, handles[h].res, FALSE, Direct(h),
                            IF blockState'[handles[h].block] = "freed" THEN 1 ELSE 0))
    /\ m_mutex' = "free"
    /\ UNCHANGED <<facade, implAlive, capacity, hasRecycle, nthreads,
                   m_free_vector, allocMissing, resState, recycleCalls,
                   danglingAccess>>
    /\ UNCHANGED copy

\* lines 348-358 after ~impl: m_mutex and m_free_vector_control_blocks are
\* dangling references.  Locking the destroyed mutex and reading the
\* destroyed vector is undefined behaviour; the block ends freed (the stale
\* size is not below the stale capacity) or written into the released
\* vector storage and never freed.
DeallocDangling(h) ==
    /\ handles[h].st \in {"dealloc_lock", "dealloc_cs"}
    /\ ~implAlive
    /\ danglingAccess' = TRUE
    /\ \E outcome \in {"freed", "lost"} :
          blockState' = [blockState EXCEPT ![handles[h].block] = outcome]
    /\ handles' = [handles EXCEPT ![h].st = "gone"]
    /\ hist' = Logged(Event("drop", h, handles[h].res, FALSE, Direct(h),
                            IF blockState'[handles[h].block] = "freed" THEN 1 ELSE 0))
    /\ m_mutex' = IF handles[h].st = "dealloc_cs" THEN "free" ELSE m_mutex
    /\ UNCHANGED <<facade, implAlive, capacity, hasRecycle, nthreads,
                   m_free_vector, m_free_vector_control_blocks, allocMissing,
                   resState, recycleCalls>>
    /\ UNCHANGED copy

\* ---- resource_pool::~resource_pool: the facade's m_pool is released ----

\* the caller destroys the facade while no thread is inside one of its
\* member functions
DestroyFacade ==
    /\ IdleThread
    /\ facade
    /\ m_mutex \notin FacadeCalls
    /\ allocMissing = 0
    /\ facade' = FALSE
    /\ IF LastPoolRef(facade', handles)
       THEN ImplDtor
       ELSE UNCHANGED <<implAlive, m_free_vector, blockState,
                        m_free_vector_control_blocks>>
    /\ resState' = Reap(resState, handles, m_free_vector')
    /\ hist' = Logged(Event("destroy", 0, 0, FALSE, FALSE, 0))
    /\ UNCHANGED <<capacity, hasRecycle, nthreads, m_mutex, allocMissing,
                   handles, recycleCalls, danglingAccess>>
    /\ UNCHANGED copy

\* ---- resource_pool(const resource_pool&) -> impl(const impl&) ----

\* n resources from n calls of m_allocate, lines 189-192
RECURSIVE FreshSeq(_, _)
FreshSeq(S, n) ==
    IF n = 0 THEN <<>>
    ELSE <<Lowest(S)>> \o FreshSeq(S \ {Lowest(S)}, n - 1)

\* a copy constructor that copies the value_ptrs of the other free list
CopiedFreeListShared(fl, fresh) == fl

\* lines 188-192: the free list of the copy holds the fresh resources
CopiedFreeList(fl, fresh) == fresh

\* line 186: reserve(other.m_free_vector.capacity())
CopiedCapacity == VectorCapacity

\* lines 103-105 and 181-193: a new impl with vectors of its own;
\* other.unused_resources() (line 188) takes the lock of this pool
CopyConstruct ==
    /\ copy.on
    /\ ~copy.made
    /\ IdleThread
    /\ facade
    /\ m_mutex = "free"
    /\ LET size == Len(m_free_vector)
           fl == CopiedFreeList(m_free_vector, FreshSeq(UnbornResources, size))
       IN /\ copy' = [copy EXCEPT !.made = TRUE,
                                  !.capacity = CopiedCapacity,
                                  !.m_free_vector = fl]
          /\ resState' = [r \in ResourceIds |->
                            IF r \in Range(fl) /\ resState[r] = "unborn"
                            THEN "live" ELSE resState[r]]
    /\ UNCHANGED <<facade, implAlive, capacity, hasRecycle, nthreads,
                   m_free_vector, m_free_vector_control_blocks, m_mutex,
                   allocMissing, handles, blockState, recycleCalls,
                   danglingAccess, hist>>

\* allocate() on the copy, lines 231-276, run by the one thread in one step
CopyAllocate ==
    /\ copy.made
    /\ IdleThread
    /\ copy.issued < MaxCopyHandles
    /\ LET hit == FreeListHit(copy.m_free_vector)
           r == IF hit THEN FreeListBack(copy.m_free_vector)
                       ELSE Lowest(UnbornResources)
           b == AllocatedBlock(hit, copy.m_free_vector_control_blocks)
       IN /\ copy' = [copy EXCEPT
                         !.m_free_vector =
                             IF hit THEN FreeListPop(@) ELSE @,
                         !.m_free_vector_control_blocks =
                             CacheAfterAllocate(hit, @),
                         !.held = @ \cup {[res |-> r, block |-> b]},
                         !.issued = @ + 1]
          /\ resState' = [resState EXCEPT ![r] = "live"]
          /\ blockState' = [blockState EXCEPT ![b] = "inuse"]
    /\ UNCHANGED <<facade, implAlive, capacity, hasRecycle, nthreads,
                   m_free_vector, m_free_vector_control_blocks, m_mutex,
                   allocMissing, handles, recycleCalls, danglingAccess, hist>>

\* the only copy of a Handle of the copy is dropped: recycle() of the copy
\* (lines 304-306), m_resource.reset() (line 469) and deallocate() into the
\* copy's control block vector (lines 344-359), in one step
CopyDrop ==
    /\ copy.made
    /\ IdleThread
    /\ \E x \in copy.held :
          /\ copy' = [copy EXCEPT
                         !.m_free_vector =
                             IF Len(@) < copy.capacity
                             THEN Append(@, x.res) ELSE @,
                         !.m_free_vector_control_blocks =
                             IF Len(@) < copy.capacity
                             THEN Append(@, x.block) ELSE @,
                         !.held = @ \ {x},
                         !.past = @ \cup {x.res}]
          /\ blockState' =
                 [blockState EXCEPT ![x.block] =
                     IF Len(copy.m_free_vector_control_blocks) < copy.capacity
                     THEN "cached" ELSE "freed"]
    /\ resState' = ReapAll(resState, handles, m_free_vector, copy')
    /\ UNCHANGED <<facade, implAlive, capacity, hasRecycle, nthreads,
                   m_free_vector, m_free_vector_control_blocks, m_mutex,
                   allocMissing, handles, recycleCalls, danglingAccess, hist>>

\* free_unused() on the copy, lines 279-286
CopyFreeUnused ==
    /\ copy.made
    /\ IdleThread
    /\ copy' = [copy EXCEPT
                   !.m_free_vector = Cleared(@),
                   !.m_free_vector_control_blocks = Cleared(@)]
    /\ blockState' = FreeAll(blockState, copy.m_free_vector_control_blocks)
    /\ resState' = ReapAll(resState, handles, m_free_vector, copy')
    /\ UNCHANGED <<facade, implAlive, capacity, hasRecycle, nthreads,
                   m_free_vector, m_free_vector_control_blocks, m_mutex,
                   allocMissing, handles, recycleCalls, danglingAccess, hist>>

Next ==
    \/ AllocLock
    \/ AllocCheck
    \/ AllocMiss
    \/ AllocThrow
    \/ FreeUnusedLock
    \/ FreeUnusedBody
    \/ UnusedLock
    \/ UnusedBody
    \/ \E h \in HandleIds : CopyHandle(h)
    \/ \E h \in HandleIds : DropHandle(h)
    \/ \E h \in HandleIds : RecycleCall(h)
    \/ \E h \in HandleIds : RecycleLock(h)
    \/ \E h \in HandleIds : RecycleBody(h)
    \/ \E h \in HandleIds : DeleterReset(h)
    \/ \E h \in HandleIds : DeallocLock(h)
    \/ \E h \in HandleIds : DeallocBody(h)
    \/ \E h \in HandleIds : DeallocDangling(h)
    \/ DestroyFacade

Spec == Init /\ [][Next]_vars

SpecSeq == InitSeq /\ [][Next]_vars

SpecFail == InitFail /\ [][Next]_vars

\* the operations on a pool and on its copy; Handles are not copied here
NextCopy ==
    \/ AllocLock
    \/ AllocCheck
    \/ AllocMiss
    \/ AllocThrow
    \/ FreeUnusedLock
    \/ FreeUnusedBody
    \/ UnusedLock
    \/ UnusedBody
    \/ \E h \in HandleIds : DropHandle(h)
    \/ \E h \in HandleIds : RecycleCall(h)
    \/ \E h \in HandleIds : RecycleLock(h)
    \/ \E h \in HandleIds : RecycleBody(h)
    \/ \E h \in HandleIds : DeleterReset(h)
    \/ \E h \in HandleIds : DeallocLock(h)
    \/ \E h \in HandleIds : DeallocBody(h)
    \/ \E h \in HandleIds : DeallocDangling(h)
    \/ DestroyFacade
    \/ CopyConstruct
    \/ CopyAllocate
    \/ CopyDrop
    \/ CopyFreeUnused

SpecCopy == InitCopy /\ [][NextCopy]_vars

TypeOK ==
    /\ facade \in BOOLEAN
    /\ implAlive \in BOOLEAN
    /\ capacity \in 0..MaxCapacity
    /\ nthreads \in 1..NumThreads
    /\ Busy <= nthreads
    /\ m_mutex \in FacadeCalls \cup {"free", "recycle", "deallocate"}
    /\ allocMissing \in 0..NumThreads
    /\ \A i \in 1..Len(m_free_vector) : m_free_vector[i] \in ResourceIds
    /\ \A i \in 1..Len(m_free_vector_control_blocks) :
          m_free_vector_control_blocks[i] \in BlockIds
    /\ \A h \in HandleIds :
          /\ handles[h].st \in ReleaseStates \cup {"unused", "active", "gone"}
          /\ handles[h].fate \in {"none", "recycled", "overflow", "expired"}
    /\ \A r \in ResourceIds : resState[r] \in {"unborn", "live", "destroyed"}
    /\ \A b \in BlockIds :
          blockState[b] \in {"unalloc", "inuse", "cached", "freed", "lost"}
    /\ Len(hist.ops) <= HistLen
    /\ copy.on \in BOOLEAN
    /\ copy.made \in BOOLEAN
    /\ copy.issued \in 0..MaxCopyHandles
    /\ \A i \in 1..Len(copy.m_free_vector) :
          copy.m_free_vector[i] \in ResourceIds

\* ---- observations the properties are stated on ----

\* a Handle the user holds: use_count >= 1, the deleter has not been entered
Active(h) == handles[h].st = "active"

\* a Handle whose last copy was dropped and whose release has completed
Released(h) == handles[h].st = "gone"

\* the operation `op` has just completed and no operation has begun since
JustAfter(op) ==
    /\ hist.ops # <<>>
    /\ Back(hist.ops).op = op
    /\ Busy = 0

\* the last completed operation released a Handle whose resource recycle()
\* did not push
AfterOverflow ==
    /\ hist.ops # <<>>
    /\ Back(hist.ops).op = "drop"
    /\ handles[Back(hist.ops).h].fate = "overflow"

\* the pool is alive, no Handle is outstanding and no operation is in flight
Quiescent ==
    /\ facade
    /\ Busy = 0
    /\ \A h \in HandleIds : ~Active(h)

\* the Handles released since construction or since the last free_unused()
DroppedHandles == {h \in HandleIds : Released(h) /\ handles[h].epoch}

\* the resources those Handles held
DroppedResources == {handles[h].res : h \in DroppedHandles}

\* ---- C1 ----

\* C1: when the facade is destroyed while Handles are alive, every surviving
\* Handle still gives access to a live resource, releasing it afterwards
\* destroys the resource without calling the recycle function or touching the
\* free list, and no step of the release (the deleter or the return of the
\* control block) accesses the vectors or the mutex of the destroyed impl.
C1_ReleaseAfterDestroy ==
    /\ \A h \in HandleIds : Active(h) => resState[handles[h].res] = "live"
    /\ \A h \in HandleIds : handles[h].fate = "expired" =>
          /\ recycleCalls[h] = 0
          /\ handles[h].res \notin Range(m_free_vector)
          /\ ~HoldsResource(handles[h].st) =>
                 resState[handles[h].res] = "destroyed"
    /\ ~danglingAccess

\* ---- C2 ----

\* C2: after every sequence and interleaving of allocate(), Handle drops and
\* free_unused(), the length of the free list, which is the value of
\* unused_resources(), is at most the capacity given to the constructor.
C2_FreeListWithinCapacity == Len(m_free_vector) <= capacity

\* the free list is full and a release found it full
C2_Witness ==
    /\ capacity > 0
    /\ Len(m_free_vector) = capacity
    /\ \E h \in HandleIds : handles[h].fate = "overflow"

\* ---- C3 ----

\* C3: a resource is never in the free list while an Active Handle references
\* it, never in the free list twice, and never referenced by two distinct
\* Active Handles, also when allocate() calls interleave.
C3_UniqueOwnership ==
    /\ \A h \in HandleIds :
          Active(h) => handles[h].res \notin Range(m_free_vector)
    /\ \A i, j \in 1..Len(m_free_vector) :
          i # j => m_free_vector[i] # m_free_vector[j]
    /\ \A g, h \in HandleIds :
          (g # h /\ Active(g) /\ Active(h)) => handles[g].res # handles[h].res

\* with several threads, a resource went from a released Handle through the
\* free list to an Active one
C3_Witness ==
    /\ nthreads > 1
    /\ \E g, h \in HandleIds :
          /\ g # h
          /\ Active(g)
          /\ Released(h)
          /\ handles[g].res = handles[h].res

\* ---- C4 ----

\* C4: on a live pool with capacity > 0, when an allocate(), the drop of the
\* only Handle it returned and a second allocate() complete with no operation
\* in between, the second allocate() returns the same resource and does not
\* invoke the allocation function.
C4_RoundTrip ==
    \A i \in 1..(Len(hist.ops) - 1) :
        LET d == hist.ops[i]
            a == hist.ops[i + 1]
        IN  (capacity > 0 /\ d.op = "drop" /\ d.direct /\ a.op = "allocate")
                => (a.res = d.res /\ ~a.fresh)

\* the round trip has just completed
C4_Witness ==
    /\ capacity > 0
    /\ Len(hist.ops) >= 2
    /\ LET d == hist.ops[Len(hist.ops) - 1]
           a == Back(hist.ops)
       IN  /\ d.op = "drop"
           /\ d.direct
           /\ a.op = "allocate"
           /\ a.res = d.res
           /\ Active(a.h)

\* ---- C5 ----

\* the step of allocate() that leaves the lock scope of lines 239-249
AllocateUnlocks == m_mutex = "allocate" /\ m_mutex' = "free"

\* the resources a step brings into existence: calls of the allocation function
Created == {r \in ResourceIds : resState[r] = "unborn" /\ resState'[r] = "live"}

\* C5: allocate() decides under the lock: with a non-empty free list it
\* removes exactly one resource (the last), wraps it in a Handle and does not
\* invoke the allocation function; with an empty free list it leaves the free
\* list unchanged, and invokes the allocation function exactly once for the
\* fresh resource it wraps (or, when the function throws, for no resource
\* and no Handle).
C5_AllocateHitOrMiss ==
    [][ /\ AllocateUnlocks =>
              IF m_free_vector # <<>>
              THEN /\ m_free_vector' = Front(m_free_vector)
                   /\ \E h \in HandleIds :
                         /\ handles[h].st = "unused"
                         /\ handles'[h].st = "active"
                         /\ handles'[h].res = Back(m_free_vector)
                   /\ allocMissing' = allocMissing
                   /\ Created = {}
              ELSE /\ m_free_vector' = m_free_vector
                   /\ handles' = handles
                   /\ allocMissing' = allocMissing + 1
                   /\ Created = {}
        /\ allocMissing' < allocMissing =>
              /\ allocMissing' = allocMissing - 1
              /\ m_free_vector' = m_free_vector
              /\ \/ /\ Cardinality(Created) = 1
                    /\ \E h \in HandleIds :
                          /\ handles[h].st = "unused"
                          /\ handles'[h].st = "active"
                          /\ handles'[h].res \in Created
                 \/ /\ Created = {}
                    /\ handles' = handles
        /\ allocMissing' >= allocMissing => Created = {}
      ]_vars

\* a hit took one of two free resources: the Handle holds the resource of a
\* released Handle and the other resource is still in the free list
C5_Witness ==
    /\ m_free_vector # <<>>
    /\ \E g, h \in HandleIds :
          /\ Active(g)
          /\ Released(h)
          /\ handles[h].fate = "recycled"
          /\ handles[g].res = handles[h].res

\* ---- C6 ----

\* C6: while the pool is alive the recycle function is invoked exactly once
\* per Handle, when its last copy is dropped: not while a copy exists, and
\* both when the resource is pushed to the free list and when it is not.
C6_RecycleOncePerHandle ==
    \A h \in HandleIds :
        /\ handles[h].st \in {"unused", "active", "rec_call"} =>
              recycleCalls[h] = 0
        /\ (handles[h].st \in {"rec_lock", "rec_cs"}
            \/ handles[h].fate \in {"recycled", "overflow"}) =>
              recycleCalls[h] = IF hasRecycle THEN 1 ELSE 0

\* one Handle was recycled, one overflowed, each with one call, and a copied
\* Handle is still held with no call
C6_Witness ==
    /\ hasRecycle
    /\ \E h \in HandleIds :
          Released(h) /\ handles[h].fate = "overflow" /\ recycleCalls[h] = 1
    /\ \E h \in HandleIds :
          Released(h) /\ handles[h].fate = "recycled" /\ recycleCalls[h] = 1
    /\ \E h \in HandleIds :
          Active(h) /\ handles[h].count > 1 /\ recycleCalls[h] = 0

\* ---- C7 ----

\* C7: once every Handle has been dropped, unused_resources() equals the
\* minimum of the capacity and the number of Handles dropped since
\* construction or since the last free_unused().
C7_UnusedEqualsHandlesDropped ==
    Quiescent =>
        Len(m_free_vector) = Min(Cardinality(DroppedHandles), capacity)

\* C7, amended: once every Handle has been dropped, unused_resources() equals
\* the minimum of the capacity and the number of distinct resources held by
\* the Handles dropped since construction or since the last free_unused().
C7_UnusedEqualsResourcesDropped ==
    Quiescent =>
        Len(m_free_vector) = Min(Cardinality(DroppedResources), capacity)

\* two Handles that held the same resource were dropped, below capacity
C7_Witness ==
    /\ Quiescent
    /\ Cardinality(DroppedHandles) > Cardinality(DroppedResources)
    /\ Cardinality(DroppedHandles) <= capacity
    /\ Len(m_free_vector) = Cardinality(DroppedResources)

\* ---- C8 ----

\* a step of a release that finds the free list holding capacity-many
\* resources leaves it unchanged; the deleter of such a Handle destroys the
\* resource; the allocate() that follows the release takes the hit path
OverflowStep(anyCapacity) ==
    /\ \A h \in HandleIds :
          (handles[h].st \in ReleaseStates /\ Len(m_free_vector) = capacity)
              => m_free_vector' = m_free_vector
    /\ \A h \in HandleIds :
          (/\ handles[h].st = "rec_cs"
           /\ handles'[h].st # "rec_cs"
           /\ Len(m_free_vector) = capacity)
              => handles'[h].fate = "overflow"
    /\ \A h \in HandleIds :
          (/\ handles[h].st = "del_reset"
           /\ handles[h].fate = "overflow"
           /\ handles'[h].st # "del_reset")
              => resState'[handles[h].res] = "destroyed"
    /\ (AfterOverflow /\ AllocateUnlocks /\ (anyCapacity \/ capacity > 0)) =>
          /\ m_free_vector # <<>>
          /\ m_free_vector' = Front(m_free_vector)
          /\ allocMissing' = allocMissing
          /\ Created = {}

\* C8: when the last copy of a Handle is dropped while the free list holds
\* capacity-many resources, the free list and unused_resources() are
\* unchanged, the resource is destroyed, and the allocate() that follows
\* returns a resource of the free list without invoking the allocation
\* function.
C8_OverflowSilent == [][OverflowStep(TRUE)]_vars

\* C8, amended: as C8, with the allocate() that follows served from the free
\* list when the capacity is greater than zero.
C8_OverflowSilentPositive == [][OverflowStep(FALSE)]_vars

\* a release overflowed and the allocate() after it was a hit
C8_Witness ==
    /\ capacity > 0
    /\ Len(hist.ops) >= 2
    /\ LET d == hist.ops[Len(hist.ops) - 1]
           a == Back(hist.ops)
       IN  /\ d.op = "drop"
           /\ handles[d.h].fate = "overflow"
           /\ resState[d.res] = "destroyed"
           /\ a.op = "allocate"
           /\ ~a.fresh

\* ---- C9 ----

\* C9: free_unused() on a live pool leaves the free list and the control
\* block vector empty, and an unused_resources() that follows it with no
\* operation in between returns 0.
C9_FreeUnusedEmpties ==
    /\ JustAfter("free_unused") =>
          (m_free_vector = <<>> /\ m_free_vector_control_blocks = <<>>)
    /\ \A i \in 1..(Len(hist.ops) - 1) :
          (hist.ops[i].op = "free_unused"
           /\ hist.ops[i + 1].op = "unused_resources")
              => hist.ops[i + 1].n = 0

\* free_unused() destroyed a recycled resource and freed a cached control
\* block, and unused_resources() followed it
C9_Witness ==
    /\ Len(hist.ops) >= 2
    /\ hist.ops[Len(hist.ops) - 1].op = "free_unused"
    /\ Back(hist.ops).op = "unused_resources"
    /\ Back(hist.ops).n = 0
    /\ \E h \in HandleIds :
          /\ handles[h].fate = "recycled"
          /\ resState[handles[h].res] = "destroyed"
          /\ blockState[handles[h].block] = "freed"

\* ---- C10 ----

\* C10: free_unused() leaves the resource of every outstanding Handle alive
\* and its control block in use, and a Handle dropped after it is recycled
\* as without it: into the empty free list when the capacity is positive,
\* with the recycle function called once and the control block cached.
C10_FreeUnusedKeepsOutstanding ==
    /\ JustAfter("free_unused") =>
          \A h \in HandleIds : Active(h) =>
              /\ resState[handles[h].res] = "live"
              /\ blockState[handles[h].block] = "inuse"
              /\ recycleCalls[h] = 0
    /\ \A i \in 1..(Len(hist.ops) - 1) :
          (hist.ops[i].op = "free_unused" /\ hist.ops[i + 1].op = "drop") =>
              LET h == hist.ops[i + 1].h
              IN  /\ recycleCalls[h] = IF hasRecycle THEN 1 ELSE 0
                  /\ handles[h].fate =
                        IF capacity > 0 THEN "recycled" ELSE "overflow"
                  /\ (capacity > 0 /\ i + 1 = Len(hist.ops) /\ Busy = 0) =>
                        /\ m_free_vector = <<handles[h].res>>
                        /\ resState[handles[h].res] = "live"
                        /\ m_free_vector_control_blocks = <<handles[h].block>>

\* free_unused() destroyed a free resource while a Handle was outstanding,
\* and that Handle was then dropped and recycled
C10_Witness ==
    /\ JustAfter("drop")
    /\ Len(hist.ops) >= 2
    /\ hist.ops[Len(hist.ops) - 1].op = "free_unused"
    /\ m_free_vector = <<Back(hist.ops).res>>
    /\ \E h \in HandleIds :
          /\ handles[h].fate = "recycled"
          /\ resState[handles[h].res] = "destroyed"

\* ---- C11 ----

\* the step in which the allocation function fails: a pending miss ends
\* without a Handle
AllocateThrows == allocMissing' < allocMissing /\ handles' = handles

\* the steps of a failing allocate(): the miss decision under the lock and
\* the failing m_allocate change nothing but the position of the call
FailingCallStep ==
    /\ (AllocateUnlocks /\ allocMissing' > allocMissing) =>
          /\ m_free_vector' = m_free_vector
          /\ m_free_vector_control_blocks' = m_free_vector_control_blocks
          /\ handles' = handles
          /\ m_mutex' = "free"
    /\ AllocateThrows =>
          /\ allocMissing' = allocMissing - 1
          /\ Created = {}
          /\ m_mutex' = "free"
          /\ UNCHANGED <<facade, implAlive, capacity, hasRecycle,
                         m_free_vector, m_free_vector_control_blocks,
                         m_mutex, resState, blockState, recycleCalls>>

\* an allocate() that follows the failed call is the miss it would be
\* without it: one call of the allocation function, one control block from
\* std::malloc, a Handle on the fresh resource
AfterFailedCall ==
    \A i \in 1..(Len(hist.ops) - 1) :
        (hist.ops[i].op = "allocate_throws" /\ hist.ops[i + 1].op = "allocate")
            => /\ hist.ops[i + 1].fresh
               /\ hist.ops[i + 1].n = 1

\* C11: when the allocation function fails inside allocate(), the call ends
\* without a Handle, the free list and the control block vector are as
\* before the call, the lock is not held afterwards, and the allocate() that
\* follows behaves as on a pool that never saw the failed call.
C11_AllocateFailure == [][FailingCallStep]_vars /\ []AfterFailedCall

\* on a pool that has released a Handle a call failed and the next one
\* returned a Handle
C11_Witness ==
    /\ Len(hist.ops) >= 2
    /\ hist.ops[Len(hist.ops) - 1].op = "allocate_throws"
    /\ Back(hist.ops).op = "allocate"
    /\ Active(Back(hist.ops).h)
    /\ \E h \in HandleIds : Released(h)

\* ---- C12 ----

\* threads inside a user-supplied function: m_allocate (line 254) or
\* m_recycle (line 301)
CallbackThreads ==
    allocMissing + Cardinality({h \in HandleIds : handles[h].st = "rec_call"})

\* the thread that holds the lock can take the step that ends its lock scope
HolderCanStep ==
    ENABLED (\/ AllocCheck
             \/ FreeUnusedBody
             \/ UnusedBody
             \/ \E h \in HandleIds : RecycleBody(h)
             \/ \E h \in HandleIds : DeallocBody(h)
             \/ \E h \in HandleIds : DeallocDangling(h))

\* C12: the lock is never held by a thread that runs the allocation function
\* or the recycle function: the threads inside a callback and the holder of
\* the lock never exceed the threads there are (with one thread the lock is
\* free during every callback, so a callback that re-enters the pool gets
\* the lock), and while a callback runs a held lock belongs to a thread that
\* can go on and release it, so no other thread waits for the callback.
C12_NoLockInCallbacks ==
    /\ CallbackThreads + (IF m_mutex = "free" THEN 0 ELSE 1) <= nthreads
    /\ (CallbackThreads > 0 /\ m_mutex # "free") => HolderCanStep

\* the recycle function runs in one thread while another thread is inside
\* the lock scope of a pool operation
C12_Witness ==
    /\ \E h \in HandleIds : handles[h].st = "rec_call"
    /\ m_mutex \in FacadeCalls

\* ---- C13 ----

\* the positions of a release inside impl::recycle
InRecycle(h) == handles[h].st \in {"rec_call", "rec_lock", "rec_cs"}

\* the deleter of h has decided between recycle() and direct destruction
Decided(h) ==
    \/ InRecycle(h)
    \/ handles[h].st \in {"del_reset", "dealloc_lock", "dealloc_cs", "gone"}

\* C13: however the facade's release of the impl interleaves with the drop
\* of a Handle's last copy, the release either runs recycle() on an impl that
\* is alive for as long as recycle() runs, or found the weak_ptr expired,
\* calls neither recycle() nor the recycle function and destroys the
\* resource; recycle() never works on the free list of a destroyed impl.
C13_TeardownRace ==
    \A h \in HandleIds :
        /\ InRecycle(h) => (implAlive /\ handles[h].fate = "none")
        /\ (Decided(h) /\ ~InRecycle(h)) =>
              handles[h].fate \in {"recycled", "overflow", "expired"}
        /\ handles[h].fate = "expired" =>
              /\ ~implAlive
              /\ recycleCalls[h] = 0
              /\ handles[h].st # "del_reset" =>
                     resState[handles[h].res] = "destroyed"

\* the facade is gone while a release is inside recycle(), holding the lock
\* of the impl it keeps alive, and another Handle is still held
C13_Witness ==
    /\ ~facade
    /\ implAlive
    /\ \E h \in HandleIds : handles[h].st = "rec_cs"
    /\ \E h \in HandleIds : Active(h)

\* ---- C14 ----

\* the resources this pool holds or has issued, and those of its copy
Mine == Range(m_free_vector) \cup {handles[h].res : h \in IssuedHandles}
Theirs ==
    Range(copy.m_free_vector) \cup {x.res : x \in copy.held} \cup copy.past

\* the copy constructor calls the allocation function once per free resource
\* of the original and leaves the original's free list alone; later steps
\* work on one pool and leave the other as it is
CopyStep ==
    /\ (~copy.made /\ copy'.made) =>
          /\ Cardinality(Created) = Len(m_free_vector)
          /\ Len(copy'.m_free_vector) = Len(m_free_vector)
          /\ Range(copy'.m_free_vector) = Created
          /\ copy'.capacity = capacity
          /\ m_free_vector' = m_free_vector
    /\ (copy.made /\ copy' # copy) =>
          UNCHANGED <<m_free_vector, m_free_vector_control_blocks, handles>>
    /\ (copy.made /\ (m_free_vector' # m_free_vector \/ handles' # handles)) =>
          copy' = copy

\* no resource of one pool is in the free list or a Handle of the other
CopyDisjoint ==
    copy.made =>
        /\ Mine \cap Theirs = {}
        /\ Len(copy.m_free_vector) <= capacity

\* C14: copying a pool with n free resources invokes the allocation
\* function n times and yields a pool with n free resources and the same
\* capacity, the original's free list unchanged; afterwards an operation on
\* one pool never changes the other's free list, and no resource of a Handle
\* of one pool is recycled into the other.
C14_CopyIsDeep == [][CopyStep]_vars /\ []CopyDisjoint

\* a pool with two free resources was copied; since then a Handle of the
\* copy was recycled into the copy and the original still has a free resource
C14_Witness ==
    /\ copy.made
    /\ Len(copy.m_free_vector) = 2
    /\ copy.past # {}
    /\ copy.issued = 1
    /\ m_free_vector # <<>>

\* ---- C15 ----

\* the Handles whose control block is b: issued, and deallocate() not done
BlockUsers(b) ==
    {h \in HandleIds :
        handles[h].st \notin {"unused", "gone"} /\ handles[h].block = b}

\* the positions of b in the control block vector
BlockSlots(b) ==
    {i \in 1..Len(m_free_vector_control_blocks) :
        m_free_vector_control_blocks[i] = b}

\* C15: every control block taken from the heap goes back exactly once: a
\* block is in use by one Handle, or once in the control block vector, or
\* freed, and never two of these; free_unused() and ~impl free only cached
\* blocks; no block is lost, and once the pool is destroyed and every Handle
\* dropped, in either order, every block has been freed.
C15_BlocksFreedOnce ==
    /\ \A b \in BlockIds :
          /\ blockState[b] = "inuse" =>
                (Cardinality(BlockUsers(b)) = 1 /\ BlockSlots(b) = {})
          /\ blockState[b] = "cached" =>
                (BlockUsers(b) = {} /\ Cardinality(BlockSlots(b)) = 1)
          /\ blockState[b] \in {"unalloc", "freed"} =>
                (BlockUsers(b) = {} /\ BlockSlots(b) = {})
          /\ blockState[b] # "lost"
    /\ (~implAlive /\ \A h \in HandleIds : handles[h].st \in {"unused", "gone"})
          => \A b \in BlockIds : blockState[b] \in {"unalloc", "freed"}

\* ---- C16 ----

\* the Handle h is created by this step
Issues(h) == handles[h].st = "unused" /\ handles'[h].st = "active"

\* the new Handle h gets the last block of the control block vector
FromCache(h) ==
    /\ m_free_vector_control_blocks # <<>>
    /\ handles'[h].block = Back(m_free_vector_control_blocks)
    /\ m_free_vector_control_blocks' = Front(m_free_vector_control_blocks)

\* the new Handle h gets a block from std::malloc
FromHeap(h) ==
    /\ blockState[handles'[h].block] = "unalloc"
    /\ m_free_vector_control_blocks' = m_free_vector_control_blocks

\* the block of a new Handle: from the cache when it holds one, else from
\* the heap; on the miss path so when missTakesCached, else from the heap
BlockTake(missTakesCached) ==
    \A h \in HandleIds :
        Issues(h) =>
            IF AllocateUnlocks \/ missTakesCached
            THEN IF m_free_vector_control_blocks # <<>>
                 THEN FromCache(h) ELSE FromHeap(h)
            ELSE FromHeap(h)

\* C16: whenever allocate() creates a Handle, on the hit path and on the
\* miss path, its control block is taken from the control block vector if
\* that holds a block, and from the heap only if it is empty.
C16_BlockFromCache == [][BlockTake(TRUE)]_vars

\* C16, amended: on the hit path the control block is taken from the control
\* block vector if that holds a block and from the heap only if it is empty;
\* on the miss path it is always taken from the heap and the vector is left
\* as it is.
C16_BlockFromCacheOnHit == [][BlockTake(FALSE)]_vars

\* a Handle created on the hit path holds the control block of a released
\* Handle
C16_Witness ==
    \E g, h \in HandleIds :
        /\ g # h
        /\ Active(g)
        /\ Released(h)
        /\ handles[g].block = handles[h].block

\* ---- C17 ----

\* the operations whose lock scope reads or writes m_free_vector
FreeListUsers == {"allocate", "free_unused", "unused_resources", "recycle"}

\* the operations whose lock scope reads or writes the control block vector
CacheUsers == {"allocate", "free_unused", "deallocate"}

\* the Handles whose release is inside a lock scope
InLockScope == {h \in HandleIds : handles[h].st \in {"rec_cs", "dealloc_cs"}}

\* a step that changes one of the two vectors of a live impl is the last
\* step of the lock scope of an operation that uses that vector
LockedWrite ==
    implAlive' =>
        /\ m_free_vector' # m_free_vector =>
              m_mutex \in FreeListUsers /\ m_mutex' = "free"
        /\ m_free_vector_control_blocks' # m_free_vector_control_blocks =>
              m_mutex \in CacheUsers /\ m_mutex' = "free"

\* the thread inside a lock scope is the one named by the mutex, and it is
\* the only one
OneInLockScope ==
    implAlive =>
        /\ Cardinality(InLockScope) = (IF m_mutex \in {"recycle", "deallocate"} THEN 1 ELSE 0)
        /\ \A h \in InLockScope :
              m_mutex = (IF handles[h].st = "rec_cs" THEN "recycle" ELSE "deallocate")

\* C17: while the impl exists, every read and write of m_free_vector and of
\* the control block vector, by allocate(), recycle(), unused_resources(),
\* free_unused() and by the taking and returning of control blocks, happens
\* inside a scope of the one mutex, and no two threads are in such a scope
\* at once.
C17_AccessUnderLock == [][LockedWrite]_vars /\ []OneInLockScope

\* one release is inside the lock scope of deallocate on a live impl while
\* another thread's release waits for the mutex
C17_Witness ==
    /\ implAlive
    /\ m_mutex = "deallocate"
    /\ \E g, h \in HandleIds :
          /\ handles[g].st = "dealloc_cs"
          /\ handles[h].st = "rec_lock"

\* ---- C18 ----

\* deleter::operator() of Handle h has returned
AfterRelease(h) == handles[h].st \in {"dealloc_lock", "dealloc_cs", "gone"}

\* another Handle's deleter has resource r in its m_resource
HeldByOther(h, r) ==
    \E g \in HandleIds \ {h} :
        /\ handles[g].res = r
        /\ handles[g].st \in {"active", "rec_call", "rec_lock", "rec_cs", "del_reset"}

\* C18: once deleter::operator() has returned, the deleter holds no strong
\* reference to the resource, on the recycle branch and on the expired
\* branch alike: a resource that recycle() did not push, or whose pool was
\* gone, is destroyed unless the deleter of another Handle holds it, and a
\* resource that is still alive is kept by the free list or by the deleter
\* of another Handle (an earlier one that has not reached its reset, or a
\* later one that allocate() took from the free list).
C18_DeleterLetsGo ==
    \A h \in HandleIds :
        AfterRelease(h) =>
            /\ (/\ handles[h].fate \in {"overflow", "expired"}
                /\ ~HeldByOther(h, handles[h].res)) =>
                  resState[handles[h].res] = "destroyed"
            /\ resState[handles[h].res] = "live" =>
                  \/ handles[h].res \in Range(m_free_vector)
                  \/ HeldByOther(h, handles[h].res)

\* one release has put its resource into the free list, which alone keeps
\* it, and another has found the free list full and destroyed its resource
C18_Witness ==
    \E g, h \in HandleIds :
        /\ Released(g)
        /\ handles[g].fate = "recycled"
        /\ resState[handles[g].res] = "live"
        /\ handles[g].res \in Range(m_free_vector)
        /\ Released(h)
        /\ handles[h].fate = "overflow"
        /\ resState[handles[h].res] = "destroyed"

\* ---- C19 ----

\* a release of some Handle is inside deleter::operator() with the impl locked
ReleaseInProgress == \E h \in HandleIds : HoldsPool(handles[h])

\* ~impl has run: nothing idle is left, no control block is cached, and a
\* resource that is still alive belongs to a Handle
CoreDestroyed ==
    /\ ~implAlive
    /\ m_free_vector = <<>>
    /\ m_free_vector_control_blocks = <<>>
    /\ \A b \in BlockIds : blockState[b] # "cached"
    /\ \A r \in ResourceIds :
          resState[r] = "live" =>
              \E h \in HandleIds :
                  /\ handles[h].res = r
                  /\ handles[h].st \in {"active", "del_reset"}

\* C19: Handles that are still out do not keep the impl alive: once the
\* resource_pool object is gone and no release is in progress, the impl is
\* destroyed, its idle resources are destroyed and its cached control
\* blocks are freed, however many Handles are still held.
C19_HandlesDoNotOwnPool == (~facade /\ ~ReleaseInProgress) => CoreDestroyed

\* the pool is gone while a Handle is still out: the resource and the
\* control block that an earlier release had left in the pool are gone too
C19_Witness ==
    /\ ~facade
    /\ ~implAlive
    /\ \E g, h \in HandleIds :
          /\ Active(h)
          /\ resState[handles[h].res] = "live"
          /\ Released(g)
          /\ handles[g].fate = "recycled"
          /\ handles[g].res # handles[h].res
          /\ resState[handles[g].res] = "destroyed"
          /\ handles[g].block # handles[h].block
          /\ blockState[handles[g].block] = "freed"

\* ---- C20 ----

\* SimpleAllocator::deallocate on a live impl returns the block of Handle h
Returns(h) ==
    /\ implAlive
    /\ handles[h].st = "dealloc_cs"
    /\ handles'[h].st = "gone"

\* a returned block is pushed iff the vector holds fewer than capacity
\* blocks, and is given to std::free otherwise
BlockReturn ==
    \A h \in HandleIds :
        Returns(h) =>
            IF Len(m_free_vector_control_blocks) < capacity
            THEN /\ m_free_vector_control_blocks' =
                        Append(m_free_vector_control_blocks, handles[h].block)
                 /\ blockState'[handles[h].block] = "cached"
            ELSE /\ m_free_vector_control_blocks' = m_free_vector_control_blocks
                 /\ blockState'[handles[h].block] = "freed"

\* the control block vector never holds more than capacity blocks
CacheBounded == implAlive => Len(m_free_vector_control_blocks) <= capacity

\* C20: while the impl exists the control block vector never holds more
\* than capacity blocks: a returned block is pushed only if the vector
\* holds fewer than capacity blocks, and is freed otherwise.
C20_CacheWithinCapacity == [][BlockReturn]_vars /\ []CacheBounded

\* the vector holds capacity blocks and a release that found it full has
\* freed its block
C20_Witness ==
    /\ nthreads = 1
    /\ implAlive
    /\ capacity > 0
    /\ Len(m_free_vector_control_blocks) = capacity
    /\ \E h \in HandleIds :
          /\ Released(h)
          /\ handles[h].fate = "overflow"
          /\ blockState[handles[h].block] = "freed"

\* ---- C21 ----

\* the last two completed operations are the drop that closed a cycle of
\* allocate() and drop, and the allocate() of the next cycle
SecondCycleBegun ==
    /\ capacity > 0
    /\ nthreads = 1
    /\ Len(hist.ops) >= 2
    /\ hist.ops[Len(hist.ops) - 1].op = "drop"
    /\ hist.ops[Len(hist.ops) - 1].direct
    /\ Back(hist.ops).op = "allocate"

\* a step of the drop of the Handle that the allocate() of the next cycle
\* returned, on a live pool
SecondCycleDropStep ==
    /\ SecondCycleBegun
    /\ facade
    /\ handles[Back(hist.ops).h].st \in ReleaseStates \cup {"active"}
    /\ handles'[Back(hist.ops).h] # handles[Back(hist.ops).h]

\* the blocks a step takes from std::malloc
Malloced == {b \in BlockIds : blockState[b] = "unalloc" /\ blockState'[b] # "unalloc"}

\* the blocks a step gives to std::free, or loses
Given == {b \in BlockIds : blockState[b] \in {"inuse", "cached"}
                            /\ blockState'[b] \in {"freed", "lost"}}

\* the allocate() of a cycle that follows a cycle took its resource from the
\* free list and its control block from the control block vector
SecondCycleAllocate ==
    SecondCycleBegun => /\ ~Back(hist.ops).fresh
                        /\ Back(hist.ops).n = 0

\* the drop of a cycle that follows a cycle touches neither the heap nor
\* the allocation function, and is completed with no block freed
SecondCycleDrop ==
    SecondCycleDropStep =>
        /\ Malloced = {}
        /\ Given = {}
        /\ Created = {}
        /\ allocMissing' = allocMissing
        /\ hist' # hist => /\ Back(hist'.ops).op = "drop"
                           /\ Back(hist'.ops).h = Back(hist.ops).h
                           /\ Back(hist'.ops).n = 0

\* C21: in single-threaded use of a live pool with capacity > 0, once one
\* cycle of allocate() and drop of the returned Handle has completed, every
\* cycle that follows takes no control block from std::malloc, gives none
\* to std::free and does not invoke the allocation function.
C21_SteadyStateNoHeap == [][SecondCycleDrop]_vars /\ []SecondCycleAllocate

\* two cycles have completed on a live pool: both Handles had the one
\* resource and the one control block there has ever been, and the block is
\* cached again
C21_Witness ==
    /\ capacity > 0
    /\ facade
    /\ JustAfter("drop")
    /\ Len(hist.ops) >= 2
    /\ Back(hist.ops).direct
    /\ Back(hist.ops).n = 0
    /\ hist.ops[Len(hist.ops) - 1].op = "allocate"
    /\ ~hist.ops[Len(hist.ops) - 1].fresh
    /\ hist.ops[Len(hist.ops) - 1].n = 0
    /\ Cardinality(IssuedHandles) = 2
    /\ Cardinality({r \in ResourceIds : resState[r] # "unborn"}) = 1
    /\ Cardinality({b \in BlockIds : blockState[b] # "unalloc"}) = 1
    /\ \A h \in IssuedHandles : Released(h)
    /\ \A b \in BlockIds : blockState[b] \in {"unalloc", "cached"}

====
